---- MODULE Spec2Model ----
(***************************************************************************)
(* A model of scripts/openai_review.py (RedPen review): the diff hunk      *)
(* parser, the changed-region extractor, the line chunker and the merge    *)
(* of chunk reviews in main.  Text is a sequence of one-character strings, *)
(* so that split, join, number formatting and the hunk regular expression  *)
(* are computed character by character, as the code computes them.         *)
(***************************************************************************)
EXTENDS Integers, Sequences, FiniteSets, TLC

VARIABLES
    \* parse_diff_hunks
    patch_lines,            \* how the patch was put together (input description)
    patch,                  \* the patch text
    scan_pos,               \* where finditer resumes (1-based)
    ranges,                 \* the list being returned
    parse_pc,
    \* extract_changed_regions
    file_text, line_ranges, context_lines,
    expanded_ranges, merged, extracted_lines, original_line_numbers,
    extracted_text, extract_pc,
    \* chunk_file_by_lines
    chunk_text_in, max_chars, chunk_state, chunks, chunk_pc,
    \* main (file_text, line_ranges, max_chars and chunks are main's locals of the
    \* same names)
    tex_paths, review_mode,
    file_idx,               \* the number of the file being reviewed, from 1
    original_text, is_diff_mode, chunk_idx, chunk_json,
    replies,                \* every reply received for the current file, in call order
    calls,                  \* every call_openai made: <<file, chunk, outcome>>, chunk 0
                            \* for a whole file, outcome "ok" or "error"
    all_comments, summary_parts, review_json, results,
    posted,                 \* the commit comments posted
    main_pc,
    \* timestamp_comment.main
    env_present,            \* GITHUB_EVENT_PATH, GITHUB_REPOSITORY and GITHUB_TOKEN are set
    trigger_phrase,         \* TRIGGER_PHRASE, or its default
    github_sha,             \* GITHUB_SHA, "" when unset
    event_name, payload,
    trigger, comment_body, comment_author, commit_sha,
    stamp_posted,           \* the commit comments posted by timestamp_comment
    stamp_pc

parseVars   == <<patch_lines, patch, scan_pos, ranges, parse_pc>>
extractVars == <<file_text, line_ranges, context_lines, expanded_ranges, merged,
                 extracted_lines, original_line_numbers, extracted_text, extract_pc>>
chunkVars   == <<chunk_text_in, max_chars, chunk_state, chunks, chunk_pc>>
mainVars    == <<tex_paths, review_mode, file_idx, original_text, is_diff_mode, chunk_idx,
                 chunk_json, replies, calls, all_comments, summary_parts, review_json,
                 results, posted, main_pc>>
stampVars   == <<env_present, trigger_phrase, github_sha, event_name, payload, trigger,
                 comment_body, comment_author, commit_sha, stamp_posted, stamp_pc>>
vars        == <<parseVars, extractVars, chunkVars, mainVars, stampVars>>

(***************************************************************************)
(* Strings                                                                 *)
(***************************************************************************)
NL == "\n"

DigitChars == <<"0", "1", "2", "3", "4", "5", "6", "7", "8", "9">>

IsDigit(c) == \E d \in 1..10 : DigitChars[d] = c

DigitValue(c) == (CHOOSE d \in 1..10 : DigitChars[d] = c) - 1

Max(a, b) == IF a >= b THEN a ELSE b

Min(a, b) == IF a <= b THEN a ELSE b

\* str(n) for n >= 0
RECURSIVE Str(_)
Str(n) == IF n < 10 THEN <<DigitChars[n + 1]>>
          ELSE Str(n \div 10) \o <<DigitChars[(n % 10) + 1]>>

\* int(s) for a non-empty run of digits
RECURSIVE ParseInt(_)
ParseInt(s) == IF Len(s) = 0 THEN 0
               ELSE 10 * ParseInt(SubSeq(s, 1, Len(s) - 1)) + DigitValue(s[Len(s)])

\* s.split("\n"): always at least one piece
RECURSIVE Split(_)
Split(s) ==
    IF \A k \in 1..Len(s) : s[k] # NL THEN <<s>>
    ELSE LET k == CHOOSE k \in 1..Len(s) :
                     s[k] = NL /\ \A j \in 1..(k - 1) : s[j] # NL
         IN <<SubSeq(s, 1, k - 1)>> \o Split(SubSeq(s, k + 1, Len(s)))

\* "\n".join(ls)
RECURSIVE Join(_)
Join(ls) == IF Len(ls) = 0 THEN <<>>
            ELSE IF Len(ls) = 1 THEN ls[1]
            ELSE ls[1] \o <<NL>> \o Join(Tail(ls))

(***************************************************************************)
(* parse_diff_hunks                                                        *)
(***************************************************************************)
\* position after the literal lit if it stands at i, else 0
Lit(p, i, lit) ==
    IF i + Len(lit) - 1 <= Len(p) /\ SubSeq(p, i, i + Len(lit) - 1) = lit
    THEN i + Len(lit) ELSE 0

\* position after the longest run of digits starting at i (i itself if none)
RECURSIVE DigitRun(_, _)
DigitRun(p, i) == IF i <= Len(p) /\ IsDigit(p[i]) THEN DigitRun(p, i + 1) ELSE i

\* (?:,\d+)? at i: position after it (i itself when the group does not match)
OptCount(p, i) ==
    IF i <= Len(p) /\ p[i] = "," /\ DigitRun(p, i + 1) > i + 1
    THEN DigitRun(p, i + 1) ELSE i

\* a group that did not take part in the match is the empty string here: the
\* code only tests group(2) for truth, and a group that matched \d+ is never empty
NoMatch == [end |-> 0, g1 |-> <<>>, g2 |-> <<>>]

\* hunk_pattern matched at position i: @@ -\d+(?:,\d+)? \+(\d+)(?:,(\d+))? @@
HunkMatchAt(p, i) ==
    LET a == Lit(p, i, <<"@", "@", " ", "-">>)
        b == DigitRun(p, a)
        c == OptCount(p, b)
        d == Lit(p, c, <<" ", "+">>)
        e == DigitRun(p, d)
        f == OptCount(p, e)
        h == Lit(p, f, <<" ", "@", "@">>)
    IN IF a = 0 \/ b = a \/ d = 0 \/ e = d \/ h = 0 THEN NoMatch
       ELSE [end |-> h,
             g1  |-> SubSeq(p, d, e - 1),
             g2  |-> IF f = e THEN <<>> ELSE SubSeq(p, e + 1, f - 1)]

\* the leftmost position >= i where hunk_pattern matches, 0 if none
RECURSIVE NextMatchPos(_, _)
NextMatchPos(p, i) ==
    IF i > Len(p) THEN 0
    ELSE IF HunkMatchAt(p, i).end # 0 THEN i
    ELSE NextMatchPos(p, i + 1)

\* the body of the for loop: the range of one match
HunkRange(m) ==
    LET start_line == ParseInt(m.g1)
        count      == IF m.g2 # <<>> THEN ParseInt(m.g2) ELSE 1
        end_line   == start_line + count - 1
    IN <<start_line, end_line>>

\* parse_diff_hunks as a function of the patch
RECURSIVE ParseFrom(_, _)
ParseFrom(p, i) ==
    LET k == NextMatchPos(p, i)
    IN IF k = 0 THEN <<>>
       ELSE LET m == HunkMatchAt(p, k) IN <<HunkRange(m)>> \o ParseFrom(p, m.end)

parse_diff_hunks(p) == ParseFrom(p, 1)

\* --- the patches the parser is run on ---
MaxPatchLines == 3

Omitted == 0 - 1

Side(sign, start, count) ==
    <<sign>> \o Str(start) \o (IF count = Omitted THEN <<>> ELSE <<",">> \o Str(count))

HunkHeader(old_start, old_count, new_start, new_count, heading) ==
    [hunk |-> TRUE, valid |-> TRUE, new_start |-> new_start, new_count |-> new_count,
     text |-> <<"@", "@", " ">> \o Side("-", old_start, old_count) \o <<" ">>
              \o Side("+", new_start, new_count) \o <<" ", "@", "@">> \o heading]

OtherLine(valid, text) ==
    [hunk |-> FALSE, valid |-> valid, new_start |-> 0, new_count |-> 0, text |-> text]

PatchLineKinds ==
    { HunkHeader(10, 5, 12, 8, <<>>),
      HunkHeader(7, Omitted, 12, Omitted, <<>>),
      HunkHeader(1, 1, 1, 1, <<" ", "s">>),
      HunkHeader(4, 2, 3, 0, <<>>),
      HunkHeader(1, 3, 0, 0, <<>>),
      OtherLine(TRUE, <<"+", "a", "b">>),
      OtherLine(TRUE, <<"-", "a">>),
      OtherLine(TRUE, <<" ", "@", "@">>),
      \* an added line of the document that quotes a hunk header
      OtherLine(TRUE, <<"+", "x", " ">> \o HunkHeader(1, Omitted, 7, Omitted, <<>>).text),
      \* a malformed header: no space before the closing @@
      OtherLine(FALSE, <<"@", "@", " ", "-", "1", ",", "2", " ", "+", "3", ",", "4", "@", "@">>) }

PatchInputs == UNION { [1..n -> PatchLineKinds] : n \in 0..MaxPatchLines }

RenderPatch(pl) == Join([k \in 1..Len(pl) |-> pl[k].text])

\* a unified diff as the compare API gives it: it opens with a hunk header and
\* every other line is a context, added or removed line
ValidPatch(pl) ==
    /\ \A k \in 1..Len(pl) : pl[k].valid
    /\ Len(pl) > 0 => pl[1].hunk

ParseIdle ==
    /\ patch_lines = <<>> /\ patch = <<>> /\ scan_pos = 1 /\ ranges = <<>>
    /\ parse_pc = "idle"

ParseInit ==
    /\ patch_lines \in PatchInputs
    /\ patch = RenderPatch(patch_lines)
    /\ scan_pos = 1
    /\ ranges = <<>>
    /\ parse_pc = "scan"

\* one iteration of `for match in hunk_pattern.finditer(patch)`
ParseMatch ==
    /\ parse_pc = "scan"
    /\ NextMatchPos(patch, scan_pos) # 0
    /\ LET m == HunkMatchAt(patch, NextMatchPos(patch, scan_pos))
       IN /\ ranges' = Append(ranges, HunkRange(m))
          /\ scan_pos' = m.end
    /\ UNCHANGED <<patch_lines, patch, parse_pc>>

\* finditer is exhausted: return ranges
ParseReturn ==
    /\ parse_pc = "scan"
    /\ NextMatchPos(patch, scan_pos) = 0
    /\ parse_pc' = "done"
    /\ UNCHANGED <<patch_lines, patch, scan_pos, ranges>>

(***************************************************************************)
(* extract_changed_regions                                                 *)
(***************************************************************************)
\* ExpandRange reaching one line further than the context on both sides
ExpandRangeWide(r, c, total_lines) ==
    <<Max(1, r[1] - c - 1), Min(total_lines, r[2] + c + 1)>>

\* ExpandRange with the context left off the end of the range
ExpandRangeStartOnly(r, c, total_lines) ==
    <<Max(1, r[1] - c), Min(total_lines, r[2])>>

\* lines 401-405: expand each range by the context and clamp it to the file
ExpandRange(r, c, total_lines) ==
    LET exp_start == Max(1, r[1] - c)
        exp_end   == Min(total_lines, r[2] + c)
    IN <<exp_start, exp_end>>

ExpandRanges(rs, c, total_lines) ==
    [k \in 1..Len(rs) |-> ExpandRange(rs[k], c, total_lines)]

\* the order of Python tuples
TupleLess(a, b) == a[1] < b[1] \/ (a[1] = b[1] /\ a[2] < b[2])

RECURSIVE InsertSorted(_, _)
InsertSorted(r, rs) ==
    IF Len(rs) = 0 THEN <<r>>
    ELSE IF TupleLess(rs[1], r) THEN <<rs[1]>> \o InsertSorted(r, Tail(rs))
    ELSE <<r>> \o rs

\* line 408: expanded_ranges.sort()
RECURSIVE SortRanges(_)
SortRanges(rs) ==
    IF Len(rs) = 0 THEN <<>> ELSE InsertSorted(rs[1], SortRanges(Tail(rs)))

\* lines 410-414: one iteration of the fold
MergeStep(acc, r) ==
    IF Len(acc) > 0 /\ r[1] <= acc[Len(acc)][2] + 1
    THEN [acc EXCEPT ![Len(acc)] = <<acc[Len(acc)][1], Max(acc[Len(acc)][2], r[2])>>]
    ELSE Append(acc, r)

RECURSIVE MergeFrom(_, _)
MergeFrom(acc, rs) ==
    IF Len(rs) = 0 THEN acc ELSE MergeFrom(MergeStep(acc, rs[1]), Tail(rs))

MergeRanges(rs) == MergeFrom(<<>>, rs)

Separator == <<".", ".", ".">>

\* f"L{line_num}: {lines[line_num - 1]}"
NumberedLine(line_num, lines) == <<"L">> \o Str(line_num) \o <<":", " ">> \o lines[line_num]

\* lines 423-426: the lines of one merged range that exist in the file
RECURSIVE BlockFrom(_, _, _)
BlockFrom(line_num, end, lines) ==
    IF line_num > end THEN <<>>
    ELSE (IF line_num <= Len(lines)
          THEN <<[text |-> NumberedLine(line_num, lines), num |-> line_num]>>
          ELSE <<>>) \o BlockFrom(line_num + 1, end, lines)

\* lines 419-426: one iteration of the loop over merged
ExtractStep(acc, r, lines) ==
    (IF Len(acc) > 0 THEN Append(acc, [text |-> Separator, num |-> 0 - 1]) ELSE acc)
        \o BlockFrom(r[1], r[2], lines)

RECURSIVE ExtractFrom(_, _, _)
ExtractFrom(acc, rs, lines) ==
    IF Len(rs) = 0 THEN acc ELSE ExtractFrom(ExtractStep(acc, rs[1], lines), Tail(rs), lines)

MergedOf(text, rs, c) ==
    MergeRanges(SortRanges(ExpandRanges(rs, c, Len(Split(text)))))

\* extract_changed_regions as a function: <<extracted_text, line_number_mapping>>
extract_changed_regions(text, rs, c) ==
    LET out == ExtractFrom(<<>>, MergedOf(text, rs, c), Split(text))
    IN <<Join([k \in 1..Len(out) |-> out[k].text]), [k \in 1..Len(out) |-> out[k].num]>>

\* --- the inputs of the extractor ---
MaxDocLines == 5
MaxStart == 6
MaxCount == 1
MaxContext == 2
MaxRanges == 2
WholeFile == 999999

\* a document of n lines: either every line is empty, or line k reads "a",
\* "bb", "a", ... so that neighbouring lines differ
DocLine(k, plain) == IF plain THEN <<>> ELSE IF k % 2 = 1 THEN <<"a">> ELSE <<"b", "b">>

Doc(n, plain) == Join([k \in 1..n |-> DocLine(k, plain)])

DocInputs == { Doc(n, FALSE) : n \in 1..MaxDocLines } \cup { Doc(2, TRUE) }

\* the ranges parse_diff_hunks can return (start >= 0, count >= 0), and the
\* whole-file range of a file that came without a patch
RangeInputs ==
    { <<s, s + k - 1>> : s \in 0..MaxStart, k \in 0..MaxCount } \cup { <<1, WholeFile>> }

RangeListInputs == UNION { [1..n -> RangeInputs] : n \in 0..MaxRanges }

ExtractIdle ==
    /\ file_text = <<>> /\ line_ranges = <<>> /\ context_lines = 0
    /\ expanded_ranges = <<>> /\ merged = <<>> /\ extracted_lines = <<>>
    /\ original_line_numbers = <<>> /\ extracted_text = <<>> /\ extract_pc = "idle"

ExtractInit ==
    /\ file_text \in DocInputs
    /\ line_ranges \in RangeListInputs
    /\ context_lines \in 0..MaxContext
    /\ expanded_ranges = <<>> /\ merged = <<>> /\ extracted_lines = <<>>
    /\ original_line_numbers = <<>> /\ extracted_text = <<>>
    /\ extract_pc = "expand"

\* lines 397-408
ExtractExpand ==
    /\ extract_pc = "expand"
    /\ expanded_ranges' =
           SortRanges(ExpandRanges(line_ranges, context_lines, Len(Split(file_text))))
    /\ extract_pc' = "merge"
    /\ UNCHANGED <<file_text, line_ranges, context_lines, merged, extracted_lines,
                   original_line_numbers, extracted_text>>

\* lines 409-414
ExtractMerge ==
    /\ extract_pc = "merge"
    /\ merged' = MergeRanges(expanded_ranges)
    /\ extract_pc' = "extract"
    /\ UNCHANGED <<file_text, line_ranges, context_lines, expanded_ranges,
                   extracted_lines, original_line_numbers, extracted_text>>

\* lines 416-426
ExtractLines ==
    /\ extract_pc = "extract"
    /\ LET out == ExtractFrom(<<>>, merged, Split(file_text))
       IN /\ extracted_lines' = [k \in 1..Len(out) |-> out[k].text]
          /\ original_line_numbers' = [k \in 1..Len(out) |-> out[k].num]
    /\ extract_pc' = "join"
    /\ UNCHANGED <<file_text, line_ranges, context_lines, expanded_ranges, merged,
                   extracted_text>>

\* line 428
ExtractReturn ==
    /\ extract_pc = "join"
    /\ extracted_text' = Join(extracted_lines)
    /\ extract_pc' = "done"
    /\ UNCHANGED <<file_text, line_ranges, context_lines, expanded_ranges, merged,
                   extracted_lines, original_line_numbers>>

(***************************************************************************)
(* chunk_file_by_lines                                                     *)
(***************************************************************************)
\* lines 447-450
ChunkLoopInit ==
    [i |-> 0, chunks |-> <<>>, current_chunk_lines |-> <<>>, current_chunk_size |-> 0,
     chunk_start_line |-> 1]

\* ChunkFlush closing the running chunk only once it is already over the budget
ChunkFlushLate(st, line_size, limit) ==
    IF st.current_chunk_size > limit /\ Len(st.current_chunk_lines) > 0
    THEN [st EXCEPT !.chunks = Append(@, <<Join(st.current_chunk_lines), st.chunk_start_line>>),
                    !.current_chunk_lines = <<>>,
                    !.current_chunk_size = 0,
                    !.chunk_start_line = st.i + 1]
    ELSE st

\* ChunkFlush recording the 0-based index of the next line as the start line
ChunkFlushZeroBased(st, line_size, limit) ==
    IF st.current_chunk_size + line_size > limit /\ Len(st.current_chunk_lines) > 0
    THEN [st EXCEPT !.chunks = Append(@, <<Join(st.current_chunk_lines), st.chunk_start_line>>),
                    !.current_chunk_lines = <<>>,
                    !.current_chunk_size = 0,
                    !.chunk_start_line = st.i]
    ELSE st

\* lines 457-462: close the running chunk when the next line would overflow it
ChunkFlush(st, line_size, limit) ==
    IF st.current_chunk_size + line_size > limit /\ Len(st.current_chunk_lines) > 0
    THEN [st EXCEPT !.chunks = Append(@, <<Join(st.current_chunk_lines), st.chunk_start_line>>),
                    !.current_chunk_lines = <<>>,
                    !.current_chunk_size = 0,
                    !.chunk_start_line = st.i + 1]
    ELSE st

\* lines 452-465: the loop body for lines[i]
ChunkStep(st, lines, limit) ==
    LET line      == lines[st.i + 1]
        line_size == Len(line) + 1
        fl        == ChunkFlush(st, line_size, limit)
    IN [fl EXCEPT !.current_chunk_lines = Append(@, line),
                  !.current_chunk_size = @ + line_size,
                  !.i = @ + 1]

\* ChunkFinish forgetting the last chunk
ChunkFinishDropsLast(st) == st.chunks

\* lines 467-472
ChunkFinish(st) ==
    IF Len(st.current_chunk_lines) > 0
    THEN Append(st.chunks, <<Join(st.current_chunk_lines), st.chunk_start_line>>)
    ELSE st.chunks

RECURSIVE ChunkLoop(_, _, _)
ChunkLoop(st, lines, limit) ==
    IF st.i >= Len(lines) THEN st ELSE ChunkLoop(ChunkStep(st, lines, limit), lines, limit)

\* chunk_file_by_lines as a function: the list of <<chunk_text, start_line>>
chunk_file_by_lines(text, limit) == ChunkFinish(ChunkLoop(ChunkLoopInit, Split(text), limit))

\* --- the inputs of the chunker ---
MaxTextLen == 6
MaxChars == 4
MinChars == 0 - 1

TextInputs == UNION { [1..n -> {"a", NL}] : n \in 0..MaxTextLen }

ChunkIdle ==
    /\ chunk_text_in = <<>> /\ max_chars = 1 /\ chunk_state = ChunkLoopInit
    /\ chunks = <<>> /\ chunk_pc = "idle"

ChunkInit ==
    /\ chunk_text_in \in TextInputs
    /\ max_chars \in MinChars..MaxChars
    /\ chunk_state = ChunkLoopInit
    /\ chunks = <<>>
    /\ chunk_pc = "loop"

\* one iteration of `for i, line in enumerate(lines)`
ChunkNextLine ==
    /\ chunk_pc = "loop"
    /\ chunk_state.i < Len(Split(chunk_text_in))
    /\ chunk_state' = ChunkStep(chunk_state, Split(chunk_text_in), max_chars)
    /\ UNCHANGED <<chunk_text_in, max_chars, chunks, chunk_pc>>

\* the loop is over: emit the last chunk and return
ChunkReturn ==
    /\ chunk_pc = "loop"
    /\ chunk_state.i >= Len(Split(chunk_text_in))
    /\ chunks' = ChunkFinish(chunk_state)
    /\ chunk_pc' = "done"
    /\ UNCHANGED <<chunk_text_in, max_chars, chunk_state>>

(***************************************************************************)
(* main, lines 699-807                                                     *)
(***************************************************************************)
ContextLines == 5

DefaultSummary ==
    <<"R", "e", "v", "i", "e", "w", " ", "c", "o", "m", "p", "l", "e", "t", "e", "d",
      " ", "i", "n", " ", "m", "u", "l", "t", "i", "p", "l", "e", " ", "c", "h", "u",
      "n", "k", "s", ".">>

ChunkLabel ==
    <<"[", "C", "h", "u", "n", "k", " ">>

\* " ".join(parts)
RECURSIVE JoinSpace(_)
JoinSpace(parts) == IF Len(parts) = 0 THEN <<>>
                    ELSE IF Len(parts) = 1 THEN parts[1]
                    ELSE parts[1] \o <<" ">> \o JoinSpace(Tail(parts))

\* A reply of the analysis service (chunk_json) is described by what json.loads
\* makes of it: kind "text" is not JSON at all, kind "array" is JSON but no
\* object, kind "object" carries a summary ("" when the key is absent) and its
\* comments (null_comments: the key holds null).  A comment carries its line as
\* <<n>> when it is an integer and <<>> when it is absent or no integer, and an
\* issue that names the comment.
Comment(line, severity, category, issue) ==
    [line |-> line, severity |-> severity, category |-> category, issue |-> issue]

TextReply  == [kind |-> "text", summary |-> <<>>, comments |-> <<>>, null_comments |-> FALSE]

ArrayReply == [kind |-> "array", summary |-> <<>>, comments |-> <<>>, null_comments |-> FALSE]

ObjectReply(summary, comments, null_comments) ==
    [kind |-> "object", summary |-> summary, comments |-> comments,
     null_comments |-> null_comments]

\* MergeComment adding the start line without taking one off
MergeCommentOffByOne(comment, diff_mode, start_line) ==
    IF ~diff_mode /\ Len(comment.line) = 1
    THEN [comment EXCEPT !.line = <<comment.line[1] + start_line>>]
    ELSE comment

\* lines 751-753: the comment as it is appended to all_comments
MergeComment(comment, diff_mode, start_line) ==
    IF ~diff_mode /\ Len(comment.line) = 1
    THEN [comment EXCEPT !.line = <<comment.line[1] + start_line - 1>>]
    ELSE comment

\* lines 756-762: the comment that stands for a reply that is not JSON
ParseErrorComment(idx, start_line) ==
    Comment(<<start_line>>, "warning", "system", <<"parse error", idx + 1, 0>>)

\* SummaryPart numbering the chunks from 0
SummaryPartZeroBased(idx, summary) == ChunkLabel \o Str(idx) \o <<"]", " ">> \o summary

\* line 747
SummaryPart(idx, summary) == ChunkLabel \o Str(idx + 1) \o <<"]", " ">> \o summary

\* lines 744-762 raise something other than JSONDecodeError: chunk_data.get on a
\* value that is no dict, or a for loop over None
MergeRaises(reply) ==
    \/ reply.kind = "array"
    \/ reply.kind = "object" /\ reply.null_comments

\* lines 765-768
Merged(parts, comments) ==
    [kind |-> "merged",
     summary |-> IF Len(parts) > 0 THEN JoinSpace(parts) ELSE DefaultSummary,
     comments |-> comments]

\* --- the inputs of main ---
MaxChunks == 3

MainDocs == { Doc(2, FALSE), Doc(7, FALSE) }

MainRangeLists == { <<<<1, 1>>>>, <<<<7, 7>>>>, <<<<3, 2>>>>, <<<<1, WholeFile>>>> }

MainBudgets == { 0, 14, 40 }

\* what main sends for review: the file, or its changed regions (lines 717-720)
ReviewText(text, diff_mode, rs) ==
    IF diff_mode THEN extract_changed_regions(text, rs, ContextLines)[1] ELSE text

\* the replies the service can give for chunk idx
ReplyInputs(idx) ==
    { TextReply, ArrayReply,
      ObjectReply(<<"o", "k">>,
                  <<Comment(<<1>>, "error", "grammar", <<"issue", idx + 1, 1>>)>>, FALSE),
      ObjectReply(<<>>,
                  <<Comment(<<3>>, "warning", "system", <<"issue", idx + 1, 1>>),
                    Comment(<<>>, "suggestion", "style", <<"issue", idx + 1, 2>>)>>, FALSE),
      ObjectReply(<<"o", "k">>, <<>>, FALSE),
      ObjectReply(<<>>, <<>>, TRUE) }

TexPathInputs == { <<>>, <<"a.tex">>, <<"a.tex", "b.tex">> }

\* format_review_as_markdown raises: data.get on a reply that is JSON but no dict
FormatRaises(rj) == rj.kind = "raw" /\ rj.raw.kind = "array"

\* lines 624-698: the settings of the run, and the files found
MainInit ==
    /\ tex_paths \in TexPathInputs
    /\ review_mode \in {"diff", "full"}
    /\ max_chars \in MainBudgets
    /\ file_idx = 0
    /\ original_text = <<>> /\ file_text = <<>> /\ line_ranges = <<>>
    /\ is_diff_mode = FALSE
    /\ chunks = <<>> /\ chunk_idx = 0 /\ chunk_json = TextReply /\ replies = <<>>
    /\ calls = <<>>
    /\ all_comments = <<>> /\ summary_parts = <<>>
    /\ review_json = [kind |-> "none"]
    /\ results = <<>> /\ posted = <<>>
    /\ main_pc = "start"

mainRest == <<context_lines, expanded_ranges, merged, extracted_lines,
              original_line_numbers, extracted_text, extract_pc,
              chunk_text_in, chunk_state, chunk_pc>>

runVars == <<tex_paths, review_mode, file_idx, results, posted>>

\* lines 699-707: nothing to review
MainNoFiles ==
    /\ main_pc = "start"
    /\ Len(tex_paths) = 0
    /\ posted' = Append(posted, [kind |-> "no_files", files |-> <<>>])
    /\ main_pc' = "exit0"
    /\ UNCHANGED <<tex_paths, review_mode, file_idx, results, file_text, line_ranges,
                   max_chars, chunks, original_text, is_diff_mode, chunk_idx, chunk_json,
                   replies, calls, all_comments, summary_parts, review_json>>

\* lines 709-710
MainStartLoop ==
    /\ main_pc = "start"
    /\ Len(tex_paths) > 0
    /\ results' = <<>>
    /\ main_pc' = "loop"
    /\ UNCHANGED <<tex_paths, review_mode, file_idx, posted, file_text, line_ranges,
                   max_chars, chunks, original_text, is_diff_mode, chunk_idx, chunk_json,
                   replies, calls, all_comments, summary_parts, review_json>>

\* lines 711-714: the next file is fetched; in diff mode its changed ranges are
\* those of changed_files
MainFetchFile ==
    /\ main_pc = "loop"
    /\ file_idx < Len(tex_paths)
    /\ \E doc \in MainDocs :
         \E rs \in (IF review_mode = "diff" THEN MainRangeLists ELSE {<<>>}) :
          /\ Len(chunk_file_by_lines(ReviewText(doc, review_mode = "diff", rs),
                                     max_chars)) <= MaxChunks
          /\ original_text' = doc
          /\ file_text' = doc
          /\ line_ranges' = rs
    /\ file_idx' = file_idx + 1
    /\ replies' = <<>>
    /\ main_pc' = "fetched"
    /\ UNCHANGED <<tex_paths, review_mode, results, posted, max_chars, chunks,
                   is_diff_mode, chunk_idx, chunk_json, calls, all_comments,
                   summary_parts, review_json>>

\* lines 716-721
MainExtract ==
    /\ main_pc = "fetched"
    /\ is_diff_mode' = (review_mode = "diff")
    /\ file_text' = ReviewText(file_text, review_mode = "diff", line_ranges)
    /\ main_pc' = "sized"
    /\ UNCHANGED <<line_ranges, max_chars, chunks, original_text, chunk_idx,
                   chunk_json, replies, calls, all_comments, summary_parts, review_json>>
    /\ UNCHANGED runVars

\* lines 723-727: the text fits the budget and is reviewed in one call
MainSingleCall ==
    /\ main_pc = "sized"
    /\ Len(file_text) <= max_chars
    /\ \E r \in ReplyInputs(0) :
          /\ replies' = Append(replies, r)
          /\ review_json' = [kind |-> "raw", raw |-> r]
    /\ calls' = Append(calls, <<file_idx, 0, "ok">>)
    /\ main_pc' = "done"
    /\ UNCHANGED <<file_text, line_ranges, max_chars, chunks, original_text, is_diff_mode,
                   chunk_idx, chunk_json, all_comments, summary_parts>>
    /\ UNCHANGED runVars

\* lines 728-733
MainSplit ==
    /\ main_pc = "sized"
    /\ Len(file_text) > max_chars
    /\ chunks' = chunk_file_by_lines(file_text, max_chars)
    /\ all_comments' = <<>>
    /\ summary_parts' = <<>>
    /\ chunk_idx' = 0
    /\ main_pc' = "call"
    /\ UNCHANGED <<file_text, line_ranges, max_chars, original_text, is_diff_mode,
                   chunk_json, replies, calls, review_json>>
    /\ UNCHANGED runVars

\* lines 735-741: the call for chunk chunk_idx returns
MainChunkCall ==
    /\ main_pc = "call"
    /\ chunk_idx < Len(chunks)
    /\ \E r \in ReplyInputs(chunk_idx) :
          /\ chunk_json' = r
          /\ replies' = Append(replies, r)
    /\ calls' = Append(calls, <<file_idx, chunk_idx + 1, "ok">>)
    /\ main_pc' = "merge"
    /\ UNCHANGED <<file_text, line_ranges, max_chars, chunks, original_text, is_diff_mode,
                   chunk_idx, all_comments, summary_parts, review_json>>
    /\ UNCHANGED runVars

\* MainCallFails giving the file up and going on with the next one
MainCallFailsSkipsFile ==
    /\ \/ main_pc = "sized" /\ Len(file_text) <= max_chars
           /\ calls' = Append(calls, <<file_idx, 0, "error">>)
       \/ main_pc = "call" /\ chunk_idx < Len(chunks)
           /\ calls' = Append(calls, <<file_idx, chunk_idx + 1, "error">>)
    /\ main_pc' = "loop"
    /\ UNCHANGED <<file_text, line_ranges, max_chars, chunks, original_text, is_diff_mode,
                   chunk_idx, chunk_json, replies, all_comments, summary_parts, review_json>>
    /\ UNCHANGED runVars

\* lines 522-529: call_openai raises (line 726 or 738); main catches nothing
MainCallFails ==
    /\ \/ main_pc = "sized" /\ Len(file_text) <= max_chars
           /\ calls' = Append(calls, <<file_idx, 0, "error">>)
       \/ main_pc = "call" /\ chunk_idx < Len(chunks)
           /\ calls' = Append(calls, <<file_idx, chunk_idx + 1, "error">>)
    /\ main_pc' = "failed"
    /\ UNCHANGED <<file_text, line_ranges, max_chars, chunks, original_text, is_diff_mode,
                   chunk_idx, chunk_json, replies, all_comments, summary_parts, review_json>>
    /\ UNCHANGED runVars

\* ExtendComments putting the newer comments first
ExtendCommentsFirst(comments, reply, diff_mode, start_line) ==
    [k \in 1..Len(reply.comments) |->
        MergeComment(reply.comments[k], diff_mode, start_line)] \o comments

\* lines 748-753: the comments of a reply join all_comments
ExtendComments(comments, reply, diff_mode, start_line) ==
    comments \o [k \in 1..Len(reply.comments) |->
                    MergeComment(reply.comments[k], diff_mode, start_line)]

\* lines 743-762: parse the reply of chunk chunk_idx and merge it
MainMergeChunk ==
    /\ main_pc = "merge"
    /\ LET start_line == chunks[chunk_idx + 1][2]
       IN IF chunk_json.kind = "text"
          THEN /\ all_comments' = Append(all_comments, ParseErrorComment(chunk_idx, start_line))
               /\ summary_parts' = summary_parts
               /\ main_pc' = "next"
          ELSE IF MergeRaises(chunk_json)
          THEN /\ main_pc' = "crashed"
               /\ UNCHANGED <<all_comments, summary_parts>>
          ELSE /\ summary_parts' =
                      IF Len(chunk_json.summary) > 0
                      THEN Append(summary_parts, SummaryPart(chunk_idx, chunk_json.summary))
                      ELSE summary_parts
               /\ all_comments' =
                      ExtendComments(all_comments, chunk_json, is_diff_mode, start_line)
               /\ main_pc' = "next"
    /\ UNCHANGED <<file_text, line_ranges, max_chars, chunks, original_text, is_diff_mode,
                   chunk_idx, chunk_json, replies, calls, review_json>>
    /\ UNCHANGED runVars

\* line 735: the loop moves to the next chunk
MainNextChunk ==
    /\ main_pc = "next"
    /\ chunk_idx' = chunk_idx + 1
    /\ main_pc' = IF chunk_idx + 1 < Len(chunks) THEN "call" ELSE "combine"
    /\ UNCHANGED <<file_text, line_ranges, max_chars, chunks, original_text, is_diff_mode,
                   chunk_json, replies, calls, all_comments, summary_parts, review_json>>
    /\ UNCHANGED runVars

\* lines 764-769
MainCombine ==
    /\ main_pc = "combine"
    /\ review_json' = Merged(summary_parts, all_comments)
    /\ main_pc' = "done"
    /\ UNCHANGED <<file_text, line_ranges, max_chars, chunks, original_text, is_diff_mode,
                   chunk_idx, chunk_json, replies, calls, all_comments, summary_parts>>
    /\ UNCHANGED runVars

\* lines 771-772
MainAppendResult ==
    /\ main_pc = "done"
    /\ results' = Append(results, [path |-> tex_paths[file_idx],
                                   review_json |-> review_json,
                                   file_content |-> original_text])
    /\ main_pc' = "loop"
    /\ UNCHANGED <<tex_paths, review_mode, file_idx, posted, file_text, line_ranges,
                   max_chars, chunks, original_text, is_diff_mode, chunk_idx, chunk_json,
                   replies, calls, all_comments, summary_parts, review_json>>

\* lines 774-797: every file is reviewed; the results are formatted
MainFormat ==
    /\ main_pc = "loop"
    /\ file_idx = Len(tex_paths)
    /\ main_pc' = IF \E k \in 1..Len(results) : FormatRaises(results[k].review_json)
                  THEN "format_crashed" ELSE "post"
    /\ UNCHANGED <<tex_paths, review_mode, file_idx, results, posted, file_text,
                   line_ranges, max_chars, chunks, original_text, is_diff_mode, chunk_idx,
                   chunk_json, replies, calls, all_comments, summary_parts, review_json>>

\* lines 798-807
MainPost ==
    /\ main_pc = "post"
    /\ posted' = Append(posted, [kind |-> "review",
                                 files |-> [k \in 1..Len(results) |-> results[k].path]])
    /\ main_pc' = "exit0"
    /\ UNCHANGED <<tex_paths, review_mode, file_idx, results, file_text, line_ranges,
                   max_chars, chunks, original_text, is_diff_mode, chunk_idx, chunk_json,
                   replies, calls, all_comments, summary_parts, review_json>>

(***************************************************************************)
(* timestamp_comment.main, lines 33-88                                     *)
(***************************************************************************)
UpperChars == <<"A", "B", "C", "D", "E", "F", "G", "H", "I", "J", "K", "L", "M",
                "N", "O", "P", "Q", "R", "S", "T", "U", "V", "W", "X", "Y", "Z">>

LowerChars == <<"a", "b", "c", "d", "e", "f", "g", "h", "i", "j", "k", "l", "m",
                "n", "o", "p", "q", "r", "s", "t", "u", "v", "w", "x", "y", "z">>

\* str.lower()
Lower(s) ==
    [i \in 1..Len(s) |->
        IF \E k \in 1..Len(UpperChars) : UpperChars[k] = s[i]
        THEN LowerChars[CHOOSE k \in 1..Len(UpperChars) : UpperChars[k] = s[i]]
        ELSE s[i]]

\* needle in hay
Contains(hay, needle) ==
    \E i \in 0..(Len(hay) - Len(needle)) : SubSeq(hay, i + 1, i + Len(needle)) = needle

\* a or b, for strings
OrElse(a, b) == IF a # "" THEN a ELSE b

DefaultTrigger == <<"@", "r", "e", "d", "p", "e", "n", " ", "c", "h", "e", "c", "k">>

BotLogin == "github-actions[bot]"

\* IsAutomation taking no author for the automation
IsAutomationNever(author) == FALSE

\* line 63
IsAutomation(author) == author = BotLogin

\* --- the inputs of timestamp_comment ---
TriggerInputs == { DefaultTrigger, <<"@", "R", "P">>, <<>> }

BodyInputs ==
    { <<>>,
      <<"h", "i">>,
      <<"x", " ", "@", "r", "p", "!">>,
      <<"@", "R", "e", "d", "P", "e", "n", " ", "C", "h", "e", "c", "k">>,
      <<"@", "r", "e", "d", "p", "e", "n", " ", "c", "h", "e", "c", "k", " ", "@", "R", "P">> }

AuthorInputs == { BotLogin, "alice", "" }

\* the event of a repository_dispatch carries client_payload
DispatchPayloads ==
    { [client_payload |-> [comment_body |-> b, comment_author |-> a, commit_sha |-> c],
       comment |-> [body |-> <<>>, login |-> "", commit_id |-> ""],
       head_sha |-> "", after |-> ""] :
          b \in BodyInputs, a \in AuthorInputs, c \in {"", "c0"} }

\* the event of a comment carries the comment, and the commit in one of four places
CommentPayloads ==
    { [client_payload |-> [comment_body |-> <<>>, comment_author |-> "", commit_sha |-> ""],
       comment |-> [body |-> b, login |-> a, commit_id |-> c[1]],
       head_sha |-> c[2], after |-> c[3]] :
          b \in BodyInputs, a \in AuthorInputs,
          c \in { <<"c1", "h1", "a1">>, <<"", "h1", "">>, <<"", "", "a1">>, <<"", "", "">> } }

StampIdle ==
    /\ env_present = FALSE /\ trigger_phrase = <<>> /\ github_sha = ""
    /\ event_name = "" /\ payload = <<>>
    /\ trigger = <<>> /\ comment_body = <<>> /\ comment_author = "" /\ commit_sha = ""
    /\ stamp_posted = <<>> /\ stamp_pc = "idle"

StampInit ==
    /\ env_present \in BOOLEAN
    /\ trigger_phrase \in TriggerInputs
    /\ github_sha \in {"", "g1"}
    /\ event_name \in {"repository_dispatch", "commit_comment"}
    /\ payload \in (IF event_name = "repository_dispatch"
                    THEN DispatchPayloads ELSE CommentPayloads)
    /\ trigger = <<>> /\ comment_body = <<>> /\ comment_author = "" /\ commit_sha = ""
    /\ stamp_posted = <<>>
    /\ stamp_pc = "start"

\* lines 34-42
StampCheckEnv ==
    /\ stamp_pc = "start"
    /\ trigger' = Lower(trigger_phrase)
    /\ stamp_pc' = IF env_present THEN "load" ELSE "exit1"
    /\ UNCHANGED <<env_present, trigger_phrase, github_sha, event_name, payload,
                   comment_body, comment_author, commit_sha, stamp_posted>>

\* lines 44-60
StampReadEvent ==
    /\ stamp_pc = "load"
    /\ IF event_name = "repository_dispatch"
       THEN /\ comment_body' = Lower(payload.client_payload.comment_body)
            /\ comment_author' = payload.client_payload.comment_author
            /\ commit_sha' = payload.client_payload.commit_sha
       ELSE /\ comment_body' = Lower(payload.comment.body)
            /\ comment_author' = payload.comment.login
            /\ commit_sha' = OrElse(payload.comment.commit_id,
                                OrElse(payload.head_sha,
                                   OrElse(payload.after, github_sha)))
    /\ stamp_pc' = "filter"
    /\ UNCHANGED <<env_present, trigger_phrase, github_sha, event_name, payload,
                   trigger, stamp_posted>>

\* lines 62-65
StampSkipBot ==
    /\ stamp_pc = "filter"
    /\ IsAutomation(comment_author)
    /\ stamp_pc' = "exit0"
    /\ UNCHANGED <<env_present, trigger_phrase, github_sha, event_name, payload,
                   trigger, comment_body, comment_author, commit_sha, stamp_posted>>

\* lines 67-69
StampNoTrigger ==
    /\ stamp_pc = "filter"
    /\ ~IsAutomation(comment_author)
    /\ ~Contains(comment_body, trigger)
    /\ stamp_pc' = "exit0"
    /\ UNCHANGED <<env_present, trigger_phrase, github_sha, event_name, payload,
                   trigger, comment_body, comment_author, commit_sha, stamp_posted>>

\* lines 71-73
StampNoSha ==
    /\ stamp_pc = "filter"
    /\ ~IsAutomation(comment_author)
    /\ Contains(comment_body, trigger)
    /\ commit_sha = ""
    /\ stamp_pc' = "exit1"
    /\ UNCHANGED <<env_present, trigger_phrase, github_sha, event_name, payload,
                   trigger, comment_body, comment_author, commit_sha, stamp_posted>>

\* lines 75-88: the comment is posted
StampPost ==
    /\ stamp_pc = "filter"
    /\ ~IsAutomation(comment_author)
    /\ Contains(comment_body, trigger)
    /\ commit_sha # ""
    /\ stamp_posted' = Append(stamp_posted, [sha |-> commit_sha])
    /\ stamp_pc' = "exit0"
    /\ UNCHANGED <<env_present, trigger_phrase, github_sha, event_name, payload,
                   trigger, comment_body, comment_author, commit_sha>>

\* lines 81-85: _post_comment raises, and main raises again
StampPostFails ==
    /\ stamp_pc = "filter"
    /\ ~IsAutomation(comment_author)
    /\ Contains(comment_body, trigger)
    /\ commit_sha # ""
    /\ stamp_pc' = "raised"
    /\ UNCHANGED <<env_present, trigger_phrase, github_sha, event_name, payload,
                   trigger, comment_body, comment_author, commit_sha, stamp_posted>>

(***************************************************************************)
(* Specifications                                                          *)
(***************************************************************************)
MainIdle ==
    /\ tex_paths = <<>> /\ review_mode = "full" /\ file_idx = 0
    /\ original_text = <<>> /\ is_diff_mode = FALSE /\ chunk_idx = 0
    /\ chunk_json = TextReply /\ replies = <<>> /\ calls = <<>> /\ all_comments = <<>>
    /\ summary_parts = <<>> /\ review_json = [kind |-> "none"]
    /\ results = <<>> /\ posted = <<>> /\ main_pc = "idle"

\* parse_diff_hunks run on every patch of PatchInputs
InitParse == ParseInit /\ ExtractIdle /\ ChunkIdle /\ MainIdle /\ StampIdle

NextParse ==
    \/ ParseMatch /\ UNCHANGED <<extractVars, chunkVars, mainVars, stampVars>>
    \/ ParseReturn /\ UNCHANGED <<extractVars, chunkVars, mainVars, stampVars>>

SpecParse == InitParse /\ [][NextParse]_vars

\* extract_changed_regions run on every document, range list and context
InitExtract == ExtractInit /\ ParseIdle /\ ChunkIdle /\ MainIdle /\ StampIdle

NextExtract ==
    \/ ExtractExpand /\ UNCHANGED <<parseVars, chunkVars, mainVars, stampVars>>
    \/ ExtractMerge /\ UNCHANGED <<parseVars, chunkVars, mainVars, stampVars>>
    \/ ExtractLines /\ UNCHANGED <<parseVars, chunkVars, mainVars, stampVars>>
    \/ ExtractReturn /\ UNCHANGED <<parseVars, chunkVars, mainVars, stampVars>>

SpecExtract == InitExtract /\ [][NextExtract]_vars

\* chunk_file_by_lines run on every text and budget
InitChunk == ChunkInit /\ ParseIdle /\ ExtractIdle /\ MainIdle /\ StampIdle

NextChunk ==
    \/ ChunkNextLine /\ UNCHANGED <<parseVars, extractVars, mainVars, stampVars>>
    \/ ChunkReturn /\ UNCHANGED <<parseVars, extractVars, mainVars, stampVars>>

SpecChunk == InitChunk /\ [][NextChunk]_vars

\* one run of main
Init ==
    /\ MainInit /\ ParseIdle /\ StampIdle
    /\ context_lines = 0 /\ expanded_ranges = <<>> /\ merged = <<>>
    /\ extracted_lines = <<>> /\ original_line_numbers = <<>> /\ extracted_text = <<>>
    /\ extract_pc = "idle"
    /\ chunk_text_in = <<>> /\ chunk_state = ChunkLoopInit /\ chunk_pc = "idle"

Next ==
    \/ MainNoFiles /\ UNCHANGED <<parseVars, mainRest, stampVars>>
    \/ MainStartLoop /\ UNCHANGED <<parseVars, mainRest, stampVars>>
    \/ MainFetchFile /\ UNCHANGED <<parseVars, mainRest, stampVars>>
    \/ MainCallFails /\ UNCHANGED <<parseVars, mainRest, stampVars>>
    \/ MainAppendResult /\ UNCHANGED <<parseVars, mainRest, stampVars>>
    \/ MainFormat /\ UNCHANGED <<parseVars, mainRest, stampVars>>
    \/ MainPost /\ UNCHANGED <<parseVars, mainRest, stampVars>>
    \/ MainExtract /\ UNCHANGED <<parseVars, mainRest, stampVars>>
    \/ MainSingleCall /\ UNCHANGED <<parseVars, mainRest, stampVars>>
    \/ MainSplit /\ UNCHANGED <<parseVars, mainRest, stampVars>>
    \/ MainChunkCall /\ UNCHANGED <<parseVars, mainRest, stampVars>>
    \/ MainMergeChunk /\ UNCHANGED <<parseVars, mainRest, stampVars>>
    \/ MainNextChunk /\ UNCHANGED <<parseVars, mainRest, stampVars>>
    \/ MainCombine /\ UNCHANGED <<parseVars, mainRest, stampVars>>

Spec == Init /\ [][Next]_vars

\* one run of timestamp_comment
InitStamp ==
    /\ StampInit /\ ParseIdle /\ ExtractIdle /\ ChunkIdle /\ MainIdle

NextStamp ==
    \/ StampCheckEnv /\ UNCHANGED <<parseVars, extractVars, chunkVars, mainVars>>
    \/ StampReadEvent /\ UNCHANGED <<parseVars, extractVars, chunkVars, mainVars>>
    \/ StampSkipBot /\ UNCHANGED <<parseVars, extractVars, chunkVars, mainVars>>
    \/ StampNoTrigger /\ UNCHANGED <<parseVars, extractVars, chunkVars, mainVars>>
    \/ StampNoSha /\ UNCHANGED <<parseVars, extractVars, chunkVars, mainVars>>
    \/ StampPost /\ UNCHANGED <<parseVars, extractVars, chunkVars, mainVars>>
    \/ StampPostFails /\ UNCHANGED <<parseVars, extractVars, chunkVars, mainVars>>

SpecStamp == InitStamp /\ [][NextStamp]_vars

(***************************************************************************)
(* Properties                                                              *)
(***************************************************************************)
TotalLines == Len(Split(file_text))

\* the positions of line_map that hold a line number
LineIdx == { i \in 1..Len(original_line_numbers) : original_line_numbers[i] # 0 - 1 }

SentinelIdx == { i \in 1..Len(original_line_numbers) : original_line_numbers[i] = 0 - 1 }

\* the document lines within context_lines of some input range
WantedLines ==
    { n \in 1..TotalLines :
        \E k \in 1..Len(line_ranges) :
            line_ranges[k][1] - context_lines <= n /\ n <= line_ranges[k][2] + context_lines }

\* C1: the non-sentinel entries of line_map are, in ascending order and once
\* each, the document lines within context_lines of some input range; the
\* excerpt line at the same index is "L<n>: " followed by document line n;
\* range (3,3) with context 2 on a document of at least 5 lines gives
\* line_map = [1,2,3,4,5]; no ranges give an empty text and an empty line_map.
C1_LineMapIsChangedLines ==
    extract_pc = "done" =>
        /\ { original_line_numbers[i] : i \in LineIdx } = WantedLines
        /\ \A i \in LineIdx : \A j \in LineIdx :
               i < j => original_line_numbers[i] < original_line_numbers[j]
        /\ Len(extracted_lines) = Len(original_line_numbers)
        /\ \A i \in LineIdx :
               LET n == original_line_numbers[i]
               IN extracted_lines[i] = <<"L">> \o Str(n) \o <<":", " ">> \o Split(file_text)[n]
        /\ Len(original_line_numbers) > 0 => Split(extracted_text) = extracted_lines
        /\ (line_ranges = << <<3, 3>> >> /\ context_lines = 2 /\ TotalLines >= 5)
               => original_line_numbers = <<1, 2, 3, 4, 5>>
        /\ line_ranges = <<>> => (extracted_text = <<>> /\ original_line_numbers = <<>>)

\* two ranges whose contexts overlap and run over the end of the document
C1_Witness ==
    /\ extract_pc = "done"
    /\ Len(line_ranges) = 2
    /\ line_ranges[1] = <<4, 4>> /\ line_ranges[2] = <<1, 1>>
    /\ context_lines = 1
    /\ original_line_numbers = <<1, 2, 3, 4, 5>>
    /\ extracted_lines[2] = <<"L", "2", ":", " ", "b", "b">>

\* C4: the merged range list is sorted by start, consecutive ranges are
\* separated by at least one line, and every range starts and ends in [1, N].
C4_MergedRangesWellFormed ==
    extract_pc \in {"extract", "join", "done"} =>
        /\ \A k \in 1..(Len(merged) - 1) :
               /\ merged[k][1] <= merged[k + 1][1]
               /\ merged[k + 1][1] > merged[k][2] + 1
        /\ \A k \in 1..Len(merged) :
               /\ 1 <= merged[k][1] /\ merged[k][1] <= TotalLines
               /\ 1 <= merged[k][2] /\ merged[k][2] <= TotalLines

\* a range whose expansion by the context does not reach any line of the document
FarOutside(r) == r[2] + context_lines < 1 \/ r[1] - context_lines > TotalLines

RECURSIVE DropFarOutside(_)
DropFarOutside(rs) ==
    IF Len(rs) = 0 THEN <<>>
    ELSE (IF FarOutside(rs[1]) THEN <<>> ELSE <<rs[1]>>) \o DropFarOutside(Tail(rs))

\* C9: a range that lies entirely outside the document is dropped: the merged
\* ranges, the excerpt and line_map are those of the input without that range.
C9_OutsideRangesDropped ==
    extract_pc = "done" =>
        /\ merged = MergedOf(file_text, DropFarOutside(line_ranges), context_lines)
        /\ <<extracted_text, original_line_numbers>> =
               extract_changed_regions(file_text, DropFarOutside(line_ranges), context_lines)

\* the blocks of lines of line_map: a block starts at a line number that does
\* not continue the line number before it
BlockStarts ==
    { i \in LineIdx :
        \A j \in LineIdx :
            (j < i /\ \A m \in LineIdx : ~(j < m /\ m < i))
                => original_line_numbers[j] + 1 # original_line_numbers[i] }

\* C10: with k >= 1 blocks of lines, line_map has exactly k - 1 sentinels, each
\* between two blocks and at the index of a separator line; no sentinel is first
\* or last and no two sentinels are adjacent.
C10_SentinelsBetweenBlocks ==
    (extract_pc = "done" /\ Cardinality(BlockStarts) >= 1) =>
        /\ Cardinality(SentinelIdx) = Cardinality(BlockStarts) - 1
        /\ \A i \in SentinelIdx :
               /\ extracted_lines[i] = Separator
               /\ 1 < i /\ i < Len(original_line_numbers)
               /\ (i - 1) \in LineIdx /\ (i + 1) \in LineIdx
               /\ (i + 1) \in BlockStarts

\* the ranges the hunk headers of the patch stand for, in header order
RECURSIVE HeaderRanges(_)
HeaderRanges(pl) ==
    IF Len(pl) = 0 THEN <<>>
    ELSE (IF pl[1].hunk
          THEN << <<pl[1].new_start,
                    IF pl[1].new_count = Omitted THEN pl[1].new_start
                    ELSE pl[1].new_start + pl[1].new_count - 1>> >>
          ELSE <<>>) \o HeaderRanges(Tail(pl))

\* C5: parse_diff_hunks returns one range per hunk header, in header order, and
\* nothing for any other line: +s,k gives (s, s + k - 1), +s gives (s, s), and
\* an empty patch gives an empty list.
C5_OneRangePerHeader ==
    parse_pc = "done" => ranges = HeaderRanges(patch_lines)

\* C8: every range returned for a valid patch has start >= 1 and start <= end,
\* also when a header has a new-side count or start of 0.
C8_RangesWellFormed ==
    (parse_pc = "done" /\ ValidPatch(patch_lines)) =>
        \A k \in 1..Len(ranges) : ranges[k][1] >= 1 /\ ranges[k][1] <= ranges[k][2]

\* the lines of all chunks, chunk after chunk
RECURSIVE ChunkLines(_)
ChunkLines(cs) == IF Len(cs) = 0 THEN <<>> ELSE Split(cs[1][1]) \o ChunkLines(Tail(cs))

LongestLine(text) ==
    LET ls == Split(text)
    IN CHOOSE n \in 0..Len(text) :
           /\ \E k \in 1..Len(ls) : Len(ls[k]) = n
           /\ \A k \in 1..Len(ls) : Len(ls[k]) <= n

\* C3: for max_chars >= max(1, longest line), the chunk texts joined with a
\* newline are the text, and the lines of the chunks are the lines of the text
\* in order, none split.
C3_ChunksRejoinToText ==
    (chunk_pc = "done" /\ max_chars >= Max(1, LongestLine(chunk_text_in))) =>
        /\ Join([k \in 1..Len(chunks) |-> chunks[k][1]]) = chunk_text_in
        /\ ChunkLines(chunks) = Split(chunk_text_in)

C3_Witness ==
    /\ chunk_pc = "done"
    /\ max_chars >= Max(1, LongestLine(chunk_text_in))
    /\ Len(chunks) = 3
    /\ \E k \in 1..Len(chunks) : Len(Split(chunks[k][1])) = 2
    /\ \E k \in 1..Len(chunks) : chunks[k][1] = <<>>

\* C7: for max_chars > 0 the chunks partition the lines: the first chunk starts
\* at line 1, each next chunk starts where the previous one ends, and the
\* chunk line counts sum to the number of lines.
C7_ChunksPartitionLines ==
    (chunk_pc = "done" /\ max_chars > 0) =>
        /\ Len(chunks) >= 1
        /\ chunks[1][2] = 1
        /\ \A k \in 1..(Len(chunks) - 1) :
               chunks[k + 1][2] = chunks[k][2] + Len(Split(chunks[k][1]))
        /\ chunks[Len(chunks)][2] + Len(Split(chunks[Len(chunks)][1])) - 1
               = Len(Split(chunk_text_in))

C7_Witness ==
    /\ chunk_pc = "done"
    /\ max_chars > 0
    /\ Len(chunks) = 3
    /\ chunks[2][2] = 3 /\ chunks[3][2] = 4

\* what the merged result must hold for comment c of a chunk starting at start_line
ExpectedLine(c, start_line) ==
    IF ~is_diff_mode /\ Len(c.line) = 1 THEN <<c.line[1] + start_line - 1>> ELSE c.line

\* C2: in the merged result, under size-based chunking a comment with integer
\* line L of a chunk starting at line S has line L + S - 1; under diff mode
\* every comment keeps its line.
C2_LinesRebased ==
    (main_pc = "done" /\ review_json.kind = "merged") =>
        \A j \in 1..Len(chunks) : \A k \in 1..Len(replies[j].comments) :
            LET c == replies[j].comments[k]
            IN \E m \in 1..Len(review_json.comments) :
                   /\ review_json.comments[m].issue = c.issue
                   /\ review_json.comments[m].line = ExpectedLine(c, chunks[j][2])
                   /\ is_diff_mode => review_json.comments[m].line = c.line

\* line 3 of a chunk that starts at line 6 is line 8 of the file
C2_Witness ==
    /\ main_pc = "done" /\ review_json.kind = "merged"
    /\ ~is_diff_mode
    /\ Len(chunks) = 2 /\ chunks[2][2] = 6
    /\ Len(replies[2].comments) = 2
    /\ replies[2].comments[1].line = <<3>>
    /\ \E m \in 1..Len(review_json.comments) :
           /\ review_json.comments[m].issue = <<"issue", 2, 1>>
           /\ review_json.comments[m].line = <<8>>

\* a reply that is not a JSON object with a summary and a list of comments
BadReply(r) == r.kind # "object" \/ r.null_comments

\* C6: every chunk whose reply does not parse as the expected result gets
\* exactly one placeholder (warning, system, line = the chunk's start_line), the
\* comments of the other chunks are kept, and the merge never aborts.
C6_BadReplyGetsPlaceholder ==
    /\ main_pc # "crashed"
    /\ (main_pc = "done" /\ review_json.kind = "merged") =>
           \A j \in 1..Len(chunks) :
               IF BadReply(replies[j])
               THEN Cardinality({ m \in 1..Len(review_json.comments) :
                        review_json.comments[m] =
                            Comment(<<chunks[j][2]>>, "warning", "system",
                                    <<"parse error", j, 0>>) }) = 1
               ELSE \A k \in 1..Len(replies[j].comments) :
                        \E m \in 1..Len(review_json.comments) :
                            review_json.comments[m].issue = replies[j].comments[k].issue

\* C11: for max_chars > 0 every chunk text is at most max_chars long, except a
\* chunk that is one single line longer than max_chars; such a line is a chunk
\* of its own, whole.
C11_ChunksWithinBudget ==
    (chunk_pc = "done" /\ max_chars > 0) =>
        /\ \A k \in 1..Len(chunks) :
               \/ Len(chunks[k][1]) <= max_chars
               \/ Len(Split(chunks[k][1])) = 1
        /\ \A i \in 1..Len(Split(chunk_text_in)) :
               Len(Split(chunk_text_in)[i]) > max_chars =>
                   \E k \in 1..Len(chunks) :
                       chunks[k] = <<Split(chunk_text_in)[i], i>>

\* a line of three characters under a budget of two, between two other lines
C11_Witness ==
    /\ chunk_pc = "done"
    /\ max_chars = 2
    /\ chunk_text_in = <<"a", NL, "a", "a", "a", NL>>
    /\ chunks = << <<<<"a">>, 1>>, <<<<"a", "a", "a">>, 2>>, <<<<>>, 3>> >>

\* C16: at context 0 the merge step is idempotent: expanding, clamping, sorting
\* and folding the merged ranges again gives the merged ranges.
C16_MergeIdempotent ==
    (extract_pc \in {"extract", "join", "done"} /\ context_lines = 0) =>
        MergeRanges(SortRanges(ExpandRanges(merged, 0, TotalLines))) = merged

\* two adjacent ranges given out of order fold into one
C16_Witness ==
    /\ extract_pc = "done"
    /\ context_lines = 0
    /\ line_ranges = << <<2, 2>>, <<1, 1>> >>
    /\ TotalLines >= 2
    /\ merged = << <<1, 2>> >>

\* C12: a budget max_chars <= 0 is rejected at entry: no chunks are produced
\* and the analysis service is never called.
C12_NonPositiveBudgetRejected ==
    max_chars <= 0 => (chunks = <<>> /\ calls = <<>>)

\* the issues chunk j contributes, in the order of its reply
ChunkIssues(j) ==
    IF replies[j].kind = "text" THEN << <<"parse error", j, 0>> >>
    ELSE [k \in 1..Len(replies[j].comments) |-> replies[j].comments[k].issue]

RECURSIVE IssuesUpTo(_)
IssuesUpTo(j) == IF j = 0 THEN <<>> ELSE IssuesUpTo(j - 1) \o ChunkIssues(j)

\* C13: the comments of the merged result are those of chunk 1, then those of
\* chunk 2, and so on, each chunk's in the order of its reply, with a
\* placeholder in the place of its chunk; nothing is sorted by line.
C13_CommentsInChunkOrder ==
    (main_pc = "done" /\ review_json.kind = "merged") =>
        [m \in 1..Len(review_json.comments) |-> review_json.comments[m].issue]
            = IssuesUpTo(Len(chunks))

\* in diff mode chunk 1 reports line 3 and an unnumbered comment, chunk 2 does
\* not parse, chunk 3 reports line 1: line 3 stays ahead of line 1
C13_Witness ==
    /\ main_pc = "done" /\ review_json.kind = "merged"
    /\ is_diff_mode
    /\ Len(chunks) = 3
    /\ Len(replies[1].comments) = 2
    /\ replies[2].kind = "text"
    /\ Len(replies[3].comments) = 1
    /\ Len(review_json.comments) = 4
    /\ review_json.comments[1].line = <<3>>
    /\ review_json.comments[4].line = <<1>>
    /\ [m \in 1..Len(review_json.comments) |-> review_json.comments[m].issue]
           = << <<"issue", 1, 1>>, <<"issue", 1, 2>>, <<"parse error", 2, 0>>,
                <<"issue", 3, 1>> >>

\* the summary parts of chunks 1..j
RECURSIVE PartsUpTo(_)
PartsUpTo(j) ==
    IF j = 0 THEN <<>>
    ELSE IF replies[j].kind = "object" /\ Len(replies[j].summary) > 0
         THEN Append(PartsUpTo(j - 1),
                     <<"[", "C", "h", "u", "n", "k", " ">> \o Str(j) \o <<"]", " ">>
                         \o replies[j].summary)
         ELSE PartsUpTo(j - 1)

\* C14: the merged summary is the non-empty summaries of the chunks in chunk
\* order, each after "[Chunk j] ", joined by one space; a chunk without summary
\* or without a parsed reply adds nothing; with no summary at all it is the
\* default text.
C14_SummaryJoined ==
    (main_pc = "done" /\ review_json.kind = "merged") =>
        review_json.summary =
            IF PartsUpTo(Len(chunks)) = <<>> THEN DefaultSummary
            ELSE JoinSpace(PartsUpTo(Len(chunks)))

\* chunks 1 and 3 have a summary, chunk 2 does not parse
C14_Witness ==
    /\ main_pc = "done" /\ review_json.kind = "merged"
    /\ Len(chunks) = 3
    /\ replies[1].summary = <<"o", "k">>
    /\ replies[2].kind = "text"
    /\ replies[3].summary = <<"o", "k">>
    /\ review_json.summary =
           <<"[", "C", "h", "u", "n", "k", " ", "1", "]", " ", "o", "k", " ",
             "[", "C", "h", "u", "n", "k", " ", "3", "]", " ", "o", "k">>

\* the line of the document that line n of the reviewed text is
DocumentLine(n) ==
    IF is_diff_mode
    THEN extract_changed_regions(original_text, line_ranges, ContextLines)[2][n]
    ELSE n

\* C18: the placeholder of a chunk whose reply did not parse carries the
\* document line of the chunk's first line, in diff mode too.
C18_PlaceholderAtDocumentLine ==
    (main_pc = "done" /\ review_json.kind = "merged") =>
        \A j \in 1..Len(chunks) :
            replies[j].kind = "text" =>
                \E m \in 1..Len(review_json.comments) :
                    /\ review_json.comments[m].issue = <<"parse error", j, 0>>
                    /\ review_json.comments[m].line = <<DocumentLine(chunks[j][2])>>
\* C15: once a call of the analysis service has failed, the run has ended in a
\* fatal error: the failed call is the last call made (no retry, no later chunk,
\* no later file), the file it was made for has no result, and no commit
\* comment is posted.
C15_CallFailureIsFatal ==
    \A i \in 1..Len(calls) :
        calls[i][3] = "error" =>
            /\ main_pc = "failed"
            /\ i = Len(calls)
            /\ Len(results) < calls[i][1]
            /\ posted = <<>>

\* the call for the second chunk of the second file fails, after the first file
\* was reviewed
C15_Witness ==
    /\ main_pc = "failed"
    /\ Len(tex_paths) = 2
    /\ Len(results) = 1
    /\ Len(calls) >= 2
    /\ calls[Len(calls)] = <<2, 2, "error">>
    /\ Len(chunks) = 3
    /\ posted = <<>>

\* C17: a run without a failed call ends with exactly one commit comment: with
\* no file to review the "no files" comment, without any call of the analysis
\* service, and exit status 0; otherwise one review comment, posted after every
\* file was reviewed.
C17_ExactlyOneCommentPosted ==
    /\ Len(posted) <= 1
    /\ Len(posted) = 1 =>
           IF Len(tex_paths) = 0
           THEN posted[1].kind = "no_files" /\ calls = <<>> /\ main_pc = "exit0"
           ELSE posted[1].kind = "review" /\ Len(results) = Len(tex_paths)
    /\ main_pc \in {"exit0", "crashed", "format_crashed"} => Len(posted) = 1
\* the comment of the event, as the event carries it
EventBody ==
    IF event_name = "repository_dispatch" THEN payload.client_payload.comment_body
    ELSE payload.comment.body

EventAuthor ==
    IF event_name = "repository_dispatch" THEN payload.client_payload.comment_author
    ELSE payload.comment.login

Filtered == EventAuthor = "github-actions[bot]" \/ ~Contains(Lower(EventBody), trigger)

====
